---- MODULE Spec2Model ----
(***************************************************************************)
(* tps-ai: the onRender event of src/settings.js.  It checks the answers,  *)
(* builds a provider adapter, asks the provider for a flat list of         *)
(* path/type/content records and materializes that list under every build  *)
(* path.  The file system is a function from the absolute paths that exist *)
(* (sequences of segment names, <<>> the root) to their nodes.             *)
(***************************************************************************)
EXTENDS Integers, Sequences, FiniteSets, TLC

VARIABLES
    answers,      \* tps.getAnswers(): token, provider, model, baseUrl
    env,          \* the names of process.env that are set and non-empty
    opts,         \* tps.opts: force, wipe
    buildPaths,   \* the destination roots handed to onRender
    fs0,          \* the file system when onRender starts
    fs,           \* the file system now
    pc,           \* where onRender is: start, awaitLLM, writing, done, rejected
    err,          \* the message of the error onRender rejected with
    console,      \* what console.log has printed
    netCalls,     \* how many times generateObject has been called
    lm,           \* what getLanguageModel returned or threw
    response,     \* how generateObject settled: pending, error, null, object
    fileSystem,   \* fileSystem.fileContents, the records the provider returned
    strict,       \* the third argument of the running generateFileContent calls
    task,         \* per destination: the record it is at and the pending fs call
    attempts,     \* per destination: the record indices started, in order
    run,          \* which run of generateFileContent this is (1 or 2)
    fs1           \* the file system when the current run started

vars == <<answers, env, opts, buildPaths, fs0, fs, pc, err, console, netCalls, lm,
          response, fileSystem, strict, task, attempts, run, fs1>>

\* The longest record list the provider returns in the model.
MaxLen == 2

-----------------------------------------------------------------------------
(* JavaScript values *)

\* null / undefined
Null == "<null>"

\* !v for a string-or-null v
Falsy(v) == v \in {Null, ""}

-----------------------------------------------------------------------------
(* Paths.  A path string is the sequence of its '/'-separated segments:    *)
(* "./a/b" is <<".", "a", "b">>, "../a" is <<"..", "a">>, "/b" is          *)
(* <<"", "b">>.  An absolute normalized path is a sequence of names.       *)
(* Record paths with a trailing '/' are not among the inputs.               *)
(* The fs calls are atomic steps: nothing the program does removes a path   *)
(* or changes a file into a directory.                                      *)

RECURSIVE NormalizeFrom(_, _)
NormalizeFrom(acc, segs) ==
    IF segs = <<>> THEN acc
    ELSE LET s == Head(segs)
             rest == Tail(segs)
         IN  IF s \in {"", "."} THEN NormalizeFrom(acc, rest)
             ELSE IF s = ".."
                  THEN NormalizeFrom(IF acc = <<>> THEN acc
                                     ELSE SubSeq(acc, 1, Len(acc) - 1), rest)
                  ELSE NormalizeFrom(Append(acc, s), rest)

\* path.join(dest, rel) for an absolute dest: normalize(dest + '/' + rel)
Join(dest, rel) == NormalizeFrom(<<>>, dest \o rel)

\* path.dirname of an absolute normalized path
Dirname(p) == IF p = <<>> THEN <<>> ELSE SubSeq(p, 1, Len(p) - 1)

Prefixes(p) == {SubSeq(p, 1, k) : k \in 0..Len(p)}

\* p is dest or lies below it
Under(dest, p) == Len(p) >= Len(dest) /\ SubSeq(p, 1, Len(dest)) = dest

-----------------------------------------------------------------------------
(* The file system and the two fs/promises calls the code makes *)

DirNode == [type |-> "directory", content |-> ""]
FileNode(c) == [type |-> "file", content |-> c]

Exists(f, p) == p \in DOMAIN f
IsDir(f, p) == p \in DOMAIN f /\ f[p].type = "directory"
IsFile(f, p) == p \in DOMAIN f /\ f[p].type = "file"

Ok(f) == [ok |-> TRUE, err |-> "", fs |-> f]
Fail(code, f) == [ok |-> FALSE, err |-> code, fs |-> f]

\* fs.mkdir(p) without { recursive: true }
MkdirNotRecursive(f, p) ==
    IF Exists(f, p) THEN Fail("EEXIST", f)
    ELSE IF ~Exists(f, Dirname(p)) THEN Fail("ENOENT", f)
    ELSE IF IsFile(f, Dirname(p)) THEN Fail("ENOTDIR", f)
    ELSE Ok([q \in DOMAIN f \cup {p} |-> IF q = p THEN DirNode ELSE f[q]])

\* fs.mkdir(p, { recursive: true })
Mkdir(f, p) ==
    IF IsFile(f, p) THEN Fail("EEXIST", f)
    ELSE IF \E q \in Prefixes(p) : IsFile(f, q) THEN Fail("ENOTDIR", f)
    ELSE Ok([q \in DOMAIN f \cup Prefixes(p) |->
                IF q \in DOMAIN f THEN f[q] ELSE DirNode])

\* flag: 'w' whatever force is
WriteFlagAlwaysW(force) == "w"

\* flag: force ? 'wx' : 'w'
WriteFlag(force) == IF force THEN "wx" ELSE "w"

\* fs.writeFile(p, data, { flag })
WriteFile(f, p, data, flag) ==
    IF flag = "wx" /\ Exists(f, p) THEN Fail("EEXIST", f)
    ELSE IF IsDir(f, p) THEN Fail("EISDIR", f)
    ELSE IF ~Exists(f, Dirname(p)) THEN Fail("ENOENT", f)
    ELSE IF IsFile(f, Dirname(p)) THEN Fail("ENOTDIR", f)
    ELSE Ok([q \in DOMAIN f \cup {p} |-> IF q = p THEN FileNode(data) ELSE f[q]])

\* fileOrDir.content, without the || ''
ContentAsGiven(c) == c

\* fileOrDir.content || ''
ContentOrEmpty(c) == IF Falsy(c) THEN "" ELSE c

-----------------------------------------------------------------------------
(* getLanguageModel *)

BEDROCK == "amazon-bedrock"
AwsVars == {"AWS_REGION", "AWS_ACCESS_KEY_ID", "AWS_SECRET_ACCESS_KEY"}

TOKEN_REQUIRED == "API token required!"
PROVIDER_REQUIRED == "LLM provider required!"
BEDROCK_ENV == "amazon-bedrock provider only supports providing credentials through enviroment varibles"
UNSUPPORTED == "Unsupported llm provider"
INVALID_RESPONSE == "LLM didnt return a valid response"
PROVIDER_ERROR == "generateObject rejected"

NoModel == [ok |-> FALSE, err |-> "", adapter |-> Null, apiKey |-> Null,
            baseURL |-> Null, model |-> Null]

\* createX({ baseURL: baseUrl, apiKey: token })(model)
Adapter(name, a) == [ok |-> TRUE, err |-> "", adapter |-> name, apiKey |-> a.token,
                     baseURL |-> a.baseUrl, model |-> a.model]

Throw(msg) == [NoModel EXCEPT !.err = msg]

\* getLanguageModel without the check of the AWS environment variables
GetLanguageModelNoEnvCheck(a, e) ==
    IF a.provider \in {"openai", "anthropic", "azure", "google", "deepseek"}
    THEN Adapter(a.provider, a)
    ELSE IF a.provider = BEDROCK
    THEN [ok |-> TRUE, err |-> "", adapter |-> BEDROCK, apiKey |-> Null,
          baseURL |-> Null, model |-> a.model]
    ELSE Throw(UNSUPPORTED)

\* getLanguageModel without the 'deepseek' case
GetLanguageModelNoDeepSeek(a, e) ==
    IF a.provider \in {"openai", "anthropic", "azure", "google"}
    THEN Adapter(a.provider, a)
    ELSE IF a.provider = BEDROCK
    THEN IF \E v \in AwsVars : v \notin e THEN Throw(BEDROCK_ENV)
         ELSE [ok |-> TRUE, err |-> "", adapter |-> BEDROCK, apiKey |-> Null,
               baseURL |-> Null, model |-> a.model]
    ELSE Throw(UNSUPPORTED)

GetLanguageModel(a, e) ==
    CASE a.provider = "openai" -> Adapter("openai", a)
      [] a.provider = "anthropic" -> Adapter("anthropic", a)
      [] a.provider = "azure" -> Adapter("azure", a)
      [] a.provider = "google" -> Adapter("google", a)
      [] a.provider = BEDROCK ->
            IF \E v \in AwsVars : v \notin e THEN Throw(BEDROCK_ENV)
            ELSE [ok |-> TRUE, err |-> "", adapter |-> BEDROCK, apiKey |-> Null,
                  baseURL |-> Null, model |-> a.model]
      [] a.provider = "deepseek" -> Adapter("deepseek", a)
      [] OTHER -> Throw(UNSUPPORTED)

-----------------------------------------------------------------------------
(* generateFileContent, as a function of the file system it starts from *)

\* const filePath = path.join(dest, fileOrDir.path)
FilePath(dest, rec) == Join(dest, rec.path)

\* One iteration of the for loop.
ProcessRecord(f, dest, rec, force) ==
    LET filePath == FilePath(dest, rec)
    IN  IF rec.type = "directory" THEN Mkdir(f, filePath)
        ELSE LET m == Mkdir(f, Dirname(filePath))
             IN  IF ~m.ok THEN m
                 ELSE WriteFile(m.fs, filePath, ContentOrEmpty(rec.content),
                                WriteFlag(force))

\* The loop from record i on: [ok, err, fs, failedAt], failedAt the index of the
\* record whose call threw (0 when none did).
RECURSIVE GenerateFrom(_, _, _, _, _)
GenerateFrom(f, dest, list, force, i) ==
    IF i > Len(list) THEN [ok |-> TRUE, err |-> "", fs |-> f, failedAt |-> 0]
    ELSE LET r == ProcessRecord(f, dest, list[i], force)
         IN  IF r.ok THEN GenerateFrom(r.fs, dest, list, force, i + 1)
             ELSE [ok |-> FALSE, err |-> r.err, fs |-> r.fs, failedAt |-> i]

GenerateFileContent(f, dest, list, force) == GenerateFrom(f, dest, list, force, 1)

-----------------------------------------------------------------------------
(* The inputs the model draws from *)

O1 == <<"o1">>
O2 == <<"o2">>

\* "./a", "./a/b", "../a", "/b"
RecordPaths == {<<".", "a">>, <<".", "a", "b">>, <<"..", "a">>, <<"", "b">>}

\* FileSystemObjectSchema: path, type, optional content
Records ==
    [path : RecordPaths, type : {"file"}, content : {Null, "x"}]
        \cup [path : RecordPaths, type : {"directory"}, content : {Null}]

RecordLists == UNION {[1..n -> Records] : n \in 0..MaxLen}

RootOnly == (<<>> :> DirNode)

\* The file systems onRender may start from: nothing there; a file where "./a"
\* of o1 goes; a directory there holding a file, and a file where "../a" goes.
InitialFileSystems ==
    { RootOnly,
      RootOnly @@ (O1 :> DirNode) @@ (<<"o1", "a">> :> FileNode("old")),
      RootOnly @@ (O1 :> DirNode) @@ (<<"o1", "a">> :> DirNode)
               @@ (<<"o1", "a", "b">> :> FileNode("old"))
               @@ (<<"a">> :> FileNode("old")) }

Providers == {"", "openai", "anthropic", "azure", "google", BEDROCK, "deepseek",
              "huggingface"}

-----------------------------------------------------------------------------
(* The running generateFileContent calls.  Each call is between two awaits: *)
(* a step is the fs call it is waiting for, and what it does until the next *)
(* await.                                                                   *)

Idle == [i |-> 0, phase |-> "idle", err |-> ""]
Finished == [i |-> 0, phase |-> "done", err |-> ""]
At(i, phase) == [i |-> i, phase |-> phase, err |-> ""]
\* The call of record i threw and the loop went on to the next record.
FailedSwallowed(i, code) ==
    IF i >= Len(fileSystem) THEN Finished ELSE At(i + 1, "mkdir")

\* The call of record i threw: the async function rejects and stops.
Failed(i, code) == [i |-> i, phase |-> "failed", err |-> code]

\* Entering the loop: the first record's mkdir is issued, or the loop is empty.
Enter(list) == IF list = <<>> THEN Finished ELSE At(1, "mkdir")
EnterAttempts(list) == IF list = <<>> THEN <<>> ELSE <<1>>

\* The next iteration after record i.
NextRecord(i) == IF i >= Len(fileSystem) THEN Finished ELSE At(i + 1, "mkdir")

\* await fs.mkdir(...) of the record the call of destination d is at
MkdirCall(d) ==
    /\ d \in buildPaths
    /\ task[d].phase = "mkdir"
    /\ LET i == task[d].i
           rec == fileSystem[i]
           filePath == FilePath(d, rec)
           r == Mkdir(fs, IF rec.type = "directory" THEN filePath
                          ELSE Dirname(filePath))
           t == IF ~r.ok THEN Failed(i, r.err)
                ELSE IF rec.type = "directory" THEN NextRecord(i)
                ELSE At(i, "write")
       IN  /\ fs' = r.fs
           /\ task' = [task EXCEPT ![d] = t]
           /\ attempts' = [attempts EXCEPT ![d] =
                             IF t.phase = "mkdir" THEN Append(@, t.i) ELSE @]

\* await fs.writeFile(...) of the record the call of destination d is at
WriteCall(d) ==
    /\ d \in buildPaths
    /\ task[d].phase = "write"
    /\ LET i == task[d].i
           rec == fileSystem[i]
           r == WriteFile(fs, FilePath(d, rec), ContentOrEmpty(rec.content),
                          WriteFlag(strict))
           t == IF ~r.ok THEN Failed(i, r.err) ELSE NextRecord(i)
       IN  /\ fs' = r.fs
           /\ task' = [task EXCEPT ![d] = t]
           /\ attempts' = [attempts EXCEPT ![d] =
                             IF t.phase = "mkdir" THEN Append(@, t.i) ELSE @]

-----------------------------------------------------------------------------
(* onRender *)

\* Promise.allSettled in place of Promise.all: onRender goes on when every call
\* has settled, rejected or not.
SettleAllSettled(tasks) ==
    IF pc = "writing" /\ \A d \in buildPaths : tasks[d].phase \in {"done", "failed"}
    THEN /\ pc' = "done"
         /\ console' = Append(console, "Done!")
         /\ UNCHANGED err
    ELSE UNCHANGED <<pc, err, console>>

\* await Promise.all(...): the first rejection rejects onRender; when every call
\* has fulfilled, onRender logs 'Done!' and fulfils.
Settle(tasks) ==
    IF pc # "writing" THEN UNCHANGED <<pc, err, console>>
    ELSE IF \E d \in buildPaths : tasks[d].phase = "failed"
    THEN /\ pc' = "rejected"
         /\ err' = tasks[CHOOSE d \in buildPaths : tasks[d].phase = "failed"].err
         /\ UNCHANGED console
    ELSE IF \A d \in buildPaths : tasks[d].phase = "done"
    THEN /\ pc' = "done"
         /\ console' = Append(console, "Done!")
         /\ UNCHANGED err
    ELSE UNCHANGED <<pc, err, console>>

Reject(msg) ==
    /\ pc' = "rejected"
    /\ err' = msg

\* tps.opts.force || tps.opts.wipe
StrictArg(o) == o.force \/ o.wipe

\* getTemplateFromLLM up to its await: getLanguageModel(options) is evaluated as
\* an argument of generateObject, so a throw there comes before the call.
GetTemplateFromLLMCall ==
    /\ lm' = GetLanguageModel(answers, env)
    /\ IF lm'.ok
       THEN /\ netCalls' = netCalls + 1
            /\ pc' = "awaitLLM"
            /\ UNCHANGED err
       ELSE /\ Reject(lm'.err)
            /\ UNCHANGED netCalls

\* Without the check, generateFileContent reads fileContents of null.
OnNoObjectUnchecked ==
    /\ Reject("TypeError")
    /\ console' = Append(console, "Got it! Generating code...")

\* if (!fileSystem) throw new Error('LLM didnt return a valid response')
OnNoObject ==
    /\ Reject(INVALID_RESPONSE)
    /\ UNCHANGED console

\* onRender up to its first await: the two checks, then getTemplateFromLLM up to
\* the generateObject call, whose model argument is getLanguageModel(options).
OnRenderStart ==
    /\ pc = "start"
    /\ UNCHANGED <<answers, env, opts, buildPaths, fs0, fs, response, fileSystem,
                   strict, task, attempts, run, fs1>>
    /\ \/ /\ Falsy(answers.token) /\ answers.provider # BEDROCK
          /\ Reject(TOKEN_REQUIRED)
          /\ UNCHANGED <<console, netCalls, lm>>
       \/ /\ ~(Falsy(answers.token) /\ answers.provider # BEDROCK)
          /\ Falsy(answers.provider)
          /\ Reject(PROVIDER_REQUIRED)
          /\ UNCHANGED <<console, netCalls, lm>>
       \/ /\ ~(Falsy(answers.token) /\ answers.provider # BEDROCK)
          /\ ~Falsy(answers.provider)
          /\ console' = Append(console, "Hold tight, AI is thinking...")
          /\ GetTemplateFromLLMCall

\* generateObject settles: it rejects, or resolves with no object, or with a list.
LLMResponds ==
    /\ pc = "awaitLLM"
    /\ UNCHANGED <<answers, env, opts, buildPaths, fs0, fs, netCalls, lm, run, fs1>>
    /\ \/ /\ response' = "error"
          /\ Reject(PROVIDER_ERROR)
          /\ UNCHANGED <<console, fileSystem, strict, task, attempts>>
       \/ /\ response' = "null"
          /\ OnNoObject
          /\ UNCHANGED <<fileSystem, strict, task, attempts>>
       \/ \E list \in RecordLists :
             /\ response' = "object"
             /\ fileSystem' = list
             /\ strict' = StrictArg(opts)
             /\ task' = [d \in buildPaths |-> Enter(list)]
             /\ attempts' = [d \in buildPaths |-> EnterAttempts(list)]
             /\ IF list = <<>>
                THEN /\ pc' = "done"
                     /\ console' = console \o <<"Got it! Generating code...", "Done!">>
                ELSE /\ pc' = "writing"
                     /\ console' = Append(console, "Got it! Generating code...")
             /\ UNCHANGED err

MkdirStep(d) ==
    /\ MkdirCall(d)
    /\ Settle(task')
    /\ UNCHANGED <<answers, env, opts, buildPaths, fs0, netCalls, lm, response,
                   fileSystem, strict, run, fs1>>

WriteStep(d) ==
    /\ WriteCall(d)
    /\ Settle(task')
    /\ UNCHANGED <<answers, env, opts, buildPaths, fs0, netCalls, lm, response,
                   fileSystem, strict, run, fs1>>

\* tps.opts: nothing asked, --force, --wipe
OptionSets == {[force |-> FALSE, wipe |-> FALSE], [force |-> TRUE, wipe |-> FALSE],
               [force |-> FALSE, wipe |-> TRUE]}
Tokens == {Null, "", "tok"}
BaseUrls == {Null, "https://proxy"}
Models == {"m1"}

\* The answers onRender is run with.  The token prompt is skipped for
\* amazon-bedrock and its default is getEnvVar(provider) ?? null.
AnswerSets ==
    { a \in [token : Tokens, provider : {"", "openai", BEDROCK, "huggingface"},
             model : Models, baseUrl : {Null}] :
        a.provider = BEDROCK => a.token = Null }

NotStarted ==
    /\ fs = fs0
    /\ fs1 = fs0
    /\ run = 1
    /\ pc = "start"
    /\ err = ""
    /\ console = <<>>
    /\ netCalls = 0
    /\ lm = NoModel
    /\ response = "pending"

Init ==
    /\ answers \in AnswerSets
    /\ env \in IF answers.provider = BEDROCK THEN SUBSET AwsVars ELSE {{}}
    /\ opts \in OptionSets
    /\ buildPaths \in {{O1}, {O1, O2}}
    /\ fs0 \in InitialFileSystems
    /\ NotStarted
    /\ fileSystem = <<>>
    /\ strict = FALSE
    /\ task = [d \in buildPaths |-> Idle]
    /\ attempts = [d \in buildPaths |-> <<>>]

Next ==
    \/ OnRenderStart
    \/ LLMResponds
    \/ \E d \in {O1, O2} : MkdirStep(d)
    \/ \E d \in {O1, O2} : WriteStep(d)

Spec == Init /\ [][Next]_vars

-----------------------------------------------------------------------------
(* getTemplateFromLLM alone, over every provider, token, base URL and       *)
(* environment.                                                             *)

InitLM ==
    /\ answers \in [token : Tokens, provider : Providers, model : Models,
                    baseUrl : BaseUrls]
    /\ env \in SUBSET AwsVars
    /\ opts = [force |-> FALSE, wipe |-> FALSE]
    /\ buildPaths = {O1}
    /\ fs0 = RootOnly
    /\ NotStarted
    /\ fileSystem = <<>>
    /\ strict = FALSE
    /\ task = [d \in buildPaths |-> Idle]
    /\ attempts = [d \in buildPaths |-> <<>>]

CallGetTemplateFromLLM ==
    /\ pc = "start"
    /\ GetTemplateFromLLMCall
    /\ UNCHANGED <<answers, env, opts, buildPaths, fs0, fs, console, response,
                   fileSystem, strict, task, attempts, run, fs1>>

NextLM == CallGetTemplateFromLLM

SpecLM == InitLM /\ [][NextLM]_vars

-----------------------------------------------------------------------------
(* generateFileContent alone on one destination, called as onRender calls   *)
(* it, and called a second time on the file system the first call left.     *)

InitGen ==
    /\ answers = [token |-> "tok", provider |-> "openai", model |-> "m1",
                  baseUrl |-> Null]
    /\ env = {}
    /\ opts \in OptionSets
    /\ buildPaths \in {{O1}, {O2}}
    /\ fs0 \in InitialFileSystems
    /\ NotStarted
    /\ fileSystem \in RecordLists
    /\ strict = StrictArg(opts)
    /\ task = [d \in buildPaths |-> Enter(fileSystem)]
    /\ attempts = [d \in buildPaths |-> EnterAttempts(fileSystem)]

GenMkdir ==
    /\ \E d \in buildPaths : MkdirCall(d)
    /\ UNCHANGED <<answers, env, opts, buildPaths, fs0, pc, err, console, netCalls,
                   lm, response, fileSystem, strict, run, fs1>>

GenWrite ==
    /\ \E d \in buildPaths : WriteCall(d)
    /\ UNCHANGED <<answers, env, opts, buildPaths, fs0, pc, err, console, netCalls,
                   lm, response, fileSystem, strict, run, fs1>>

\* The first call fulfilled: call it again with the same arguments.
Rerun ==
    /\ run = 1
    /\ \A d \in buildPaths : task[d].phase = "done"
    /\ run' = 2
    /\ fs1' = fs
    /\ task' = [d \in buildPaths |-> Enter(fileSystem)]
    /\ attempts' = [d \in buildPaths |-> EnterAttempts(fileSystem)]
    /\ UNCHANGED <<answers, env, opts, buildPaths, fs0, fs, pc, err, console,
                   netCalls, lm, response, fileSystem, strict>>

NextGen == GenMkdir \/ GenWrite \/ Rerun

SpecGen == InitGen /\ [][NextGen]_vars

-----------------------------------------------------------------------------
(* What the claims speak of *)

Indices == 1..Len(fileSystem)
Target(d, i) == FilePath(d, fileSystem[i])
IsFileRecord(i) == fileSystem[i].type = "file"
IsDirRecord(i) == fileSystem[i].type = "directory"
Fulfilled(d) == task[d].phase = "done"
Rejected(d) == task[d].phase = "failed"
Settled(d) == Fulfilled(d) \/ Rejected(d)
StrictlyUnder(dest, p) == Under(dest, p) /\ p # dest

\* The destination holds nothing: it is absent or an empty directory.
EmptyDestination(f, d) ==
    \A p \in DOMAIN f : Under(d, p) => (p = d /\ IsDir(f, p))

\* A record's content, the empty string when it has none.
GivenOrEmpty(c) == IF c = Null THEN "" ELSE c

\* The content given by the last 'file' record among the first n whose target is p.
LastContent(d, p, n) ==
    LET I == {i \in 1..n : IsFileRecord(i) /\ Target(d, i) = p}
        last == CHOOSE i \in I : \A j \in I : j <= i
    IN  GivenOrEmpty(fileSystem[last].content)

\* Record i was the last one completed by the call of destination d.
JustCompleted(d, i) ==
    \/ task[d].phase = "mkdir" /\ task[d].i = i + 1
    \/ task[d].phase = "done" /\ i = Len(fileSystem)

\* A file is already there, when the call starts, where 'file' record i goes.
PreExisting(d, i) == IsFileRecord(i) /\ IsFile(fs1, Target(d, i))

OnlyTargetsUnder(d) ==
    \A p \in DOMAIN fs :
        StrictlyUnder(d, p) => \E i \in Indices : p \in Prefixes(Target(d, i))

-----------------------------------------------------------------------------
\* C1, as stated: when generateFileContent fulfils on an initially empty
\* destination, every 'directory' record's path is a directory, every 'file'
\* record's path is a file holding that record's content (empty when absent), and
\* nothing else is under the destination but the ancestors of those paths.
C1_EveryRecordKeepsItsOwnContent ==
    \A d \in buildPaths :
        (run = 1 /\ Fulfilled(d) /\ EmptyDestination(fs1, d)) =>
            /\ \A i \in Indices :
                 /\ IsDirRecord(i) => IsDir(fs, Target(d, i))
                 /\ IsFileRecord(i) =>
                      /\ IsFile(fs, Target(d, i))
                      /\ fs[Target(d, i)].content = GivenOrEmpty(fileSystem[i].content)
            /\ OnlyTargetsUnder(d)

\* C1, amended: the same, except that a path named by several 'file' records
\* holds the content of the last of them.
C1_MaterializesExactlyTheRecords ==
    \A d \in buildPaths :
        (run = 1 /\ Fulfilled(d) /\ EmptyDestination(fs1, d)) =>
            /\ \A i \in Indices :
                 /\ IsDirRecord(i) => IsDir(fs, Target(d, i))
                 /\ IsFileRecord(i) =>
                      /\ IsFile(fs, Target(d, i))
                      /\ fs[Target(d, i)].content =
                            LastContent(d, Target(d, i), Len(fileSystem))
            /\ OnlyTargetsUnder(d)

\* A fulfilled call on an empty destination that wrote a file with absent content
\* inside a directory it had to create, and a directory record.
C1_Witness ==
    \E d \in buildPaths :
        /\ run = 1 /\ Fulfilled(d) /\ EmptyDestination(fs1, d)
        /\ Len(fileSystem) = 2
        /\ \E i \in Indices : IsDirRecord(i)
        /\ \E i \in Indices :
              /\ IsFileRecord(i) /\ fileSystem[i].content = Null
              /\ Len(Target(d, i)) = 3
              /\ fs[Target(d, i)] = FileNode("")

-----------------------------------------------------------------------------
\* C2, as stated: with a file already at the target of some 'file' record, a
\* strict call (force or wipe) fails and leaves the file's content unchanged; a
\* non-strict call succeeds and the file's content becomes the record's content.
C2_NonStrictAlwaysSucceeds ==
    \A d \in buildPaths : \A i \in Indices :
        PreExisting(d, i) =>
            /\ strict = StrictArg(opts)
            /\ strict => /\ ~Fulfilled(d)
                         /\ fs[Target(d, i)] = fs1[Target(d, i)]
            /\ (~strict /\ Settled(d)) =>
                  /\ Fulfilled(d)
                  /\ fs[Target(d, i)] = FileNode(GivenOrEmpty(fileSystem[i].content))

\* C2, amended: a strict call fails and leaves the file unchanged; in a non-strict
\* call the write of that record does not fail and sets the file's content to the
\* record's content (the call still fails when another record's operation
\* fails, and a later 'file' record for the same path replaces the content).
C2_StrictRefusesNonStrictOverwrites ==
    \A d \in buildPaths : \A i \in Indices :
        PreExisting(d, i) =>
            /\ strict = StrictArg(opts)
            /\ strict => /\ ~Fulfilled(d)
                         /\ fs[Target(d, i)] = fs1[Target(d, i)]
            /\ ~strict =>
                  /\ ~(Rejected(d) /\ task[d].i = i)
                  /\ JustCompleted(d, i) =>
                        fs[Target(d, i)] = FileNode(GivenOrEmpty(fileSystem[i].content))
                  /\ Fulfilled(d) =>
                        fs[Target(d, i)] =
                            FileNode(LastContent(d, Target(d, i), Len(fileSystem)))

\* A strict call that was refused with EEXIST at the record whose file was there.
C2_Witness ==
    \E d \in buildPaths :
        /\ strict /\ Rejected(d) /\ task[d].err = "EEXIST"
        /\ PreExisting(d, task[d].i)
        /\ fs[Target(d, task[d].i)] = FileNode("old")

-----------------------------------------------------------------------------
\* The credential or the provider is missing.
MissingCredential ==
    \/ Falsy(answers.token) /\ answers.provider # BEDROCK
    \/ Falsy(answers.provider)
    \/ answers.provider = BEDROCK /\ \E v \in AwsVars : v \notin env

NothingMaterialized ==
    /\ fs = fs0
    /\ \A d \in buildPaths : task[d] = Idle /\ attempts[d] = <<>>

\* C3: with the credential or the provider missing, onRender fails without
\* calling the provider and without creating a file or a directory.
C3_MissingCredentialFailsBeforeAnyCall ==
    (MissingCredential /\ pc # "start") =>
        /\ pc = "rejected"
        /\ err \in {TOKEN_REQUIRED, PROVIDER_REQUIRED, BEDROCK_ENV}
        /\ netCalls = 0
        /\ response = "pending"
        /\ NothingMaterialized

\* amazon-bedrock with one AWS variable unset, rejected.
C3_Witness ==
    /\ answers.provider = BEDROCK
    /\ Cardinality(env) = 2
    /\ pc = "rejected"
    /\ err = BEDROCK_ENV

-----------------------------------------------------------------------------
\* C4: when the provider call fails or yields no object, onRender fails (with
\* 'LLM didnt return a valid response' when there is no object), the file system
\* is unchanged and generateFileContent is never invoked.
C4_NoObjectFailsWithoutWriting ==
    response \in {"null", "error"} =>
        /\ pc = "rejected"
        /\ response = "null" => err = INVALID_RESPONSE
        /\ response = "error" => err = PROVIDER_ERROR
        /\ "Done!" \notin {console[k] : k \in 1..Len(console)}
        /\ NothingMaterialized

C4_Witness ==
    /\ response = "null"
    /\ netCalls = 1
    /\ pc = "rejected"

-----------------------------------------------------------------------------
\* C5: whatever paths the records hold, every path created or modified lies
\* under one of the destination roots (or is an ancestor directory of one).
C5_WritesStayUnderDestination ==
    \A p \in DOMAIN fs :
        (p \notin DOMAIN fs0 \/ fs[p] # fs0[p]) =>
            \E d \in buildPaths : Under(d, p) \/ p \in Prefixes(d)

-----------------------------------------------------------------------------
NoDuplicates(seq) ==
    \A j, k \in 1..Len(seq) : j # k => seq[j] # seq[k]

\* A check, the provider call or a file-system call has failed.
FailureSeen ==
    \/ pc # "start" /\ (Falsy(answers.token) /\ answers.provider # BEDROCK)
    \/ pc # "start" /\ Falsy(answers.provider)
    \/ lm.err # ""
    \/ response \in {"null", "error"}
    \/ \E d \in buildPaths : Rejected(d)

\* C6: the provider is called at most once, every record of every destination
\* is attempted at most once, and once anything has failed onRender is rejected
\* and has not logged 'Done!'.
C6_FailuresSurfaceWithoutRetry ==
    /\ netCalls <= 1
    /\ \A d \in buildPaths : NoDuplicates(attempts[d])
    /\ FailureSeen =>
          /\ pc = "rejected"
          /\ err # ""
          /\ "Done!" \notin {console[k] : k \in 1..Len(console)}

\* One destination failed, the other ran to its end, and onRender is rejected.
C6_Witness ==
    /\ pc = "rejected"
    /\ \E d \in buildPaths : Rejected(d)
    /\ \E d \in buildPaths : Fulfilled(d) /\ Len(attempts[d]) = 2

-----------------------------------------------------------------------------
\* C7: with several non-overlapping destinations, once every call has settled
\* each destination holds what its call alone would have produced from the
\* starting file system, and each call fulfils exactly when it would alone.
C7_DestinationsIndependent ==
    (response = "object" /\ \A d \in buildPaths : Settled(d)) =>
        \A d \in buildPaths :
            LET alone == GenerateFileContent(fs0, d, fileSystem, strict)
            IN  /\ Fulfilled(d) <=> alone.ok
                /\ \A p \in DOMAIN fs \cup DOMAIN alone.fs :
                      Under(d, p) =>
                          /\ p \in DOMAIN fs
                          /\ p \in DOMAIN alone.fs
                          /\ fs[p] = alone.fs[p]

-----------------------------------------------------------------------------
\* C8: getLanguageModel builds the adapter of openai, anthropic, azure, google
\* and deepseek with the token as apiKey and baseUrl as baseURL; for
\* amazon-bedrock it ignores both and succeeds exactly when the three AWS
\* variables are set; for any other provider it fails with 'Unsupported llm
\* provider' and the provider is not called.
C8_AdapterSelectedByProvider ==
    pc # "start" =>
        CASE answers.provider \in {"openai", "anthropic", "azure", "google", "deepseek"} ->
                /\ lm.ok
                /\ lm.adapter = answers.provider
                /\ lm.apiKey = answers.token
                /\ lm.baseURL = answers.baseUrl
                /\ lm.model = answers.model
                /\ netCalls = 1
          [] answers.provider = BEDROCK ->
                /\ lm.ok <=> AwsVars \subseteq env
                /\ lm.ok => /\ lm.adapter = BEDROCK
                            /\ lm.apiKey = Null
                            /\ lm.baseURL = Null
                            /\ netCalls = 1
                /\ ~lm.ok => netCalls = 0 /\ pc = "rejected"
          [] OTHER ->
                /\ ~lm.ok
                /\ lm.err = UNSUPPORTED
                /\ pc = "rejected"
                /\ err = UNSUPPORTED
                /\ netCalls = 0

\* An unknown provider, with a token, refused.
C8_Witness ==
    /\ answers.provider = "huggingface"
    /\ answers.token = "tok"
    /\ pc = "rejected"
    /\ err = UNSUPPORTED

-----------------------------------------------------------------------------
\* C9: within one destination the records are processed in list order, one at a
\* time; when the processing of record i fails, the effects of the records
\* before it remain, no later record is attempted and the call rejects.
C9_InOrderNoRollback ==
    \A d \in buildPaths :
        LET n == Len(attempts[d])
            alone == GenerateFileContent(fs1, d, fileSystem, strict)
        IN  /\ attempts[d] = [k \in 1..n |-> k]
            /\ task[d].phase \in {"mkdir", "write", "failed"} => task[d].i = n
            /\ alone.failedAt > 0 => n <= alone.failedAt /\ ~Fulfilled(d)
            /\ Rejected(d) =>
                  /\ task[d].err # ""
                  /\ \A j \in 1..(n - 1) :
                        /\ IsDirRecord(j) => IsDir(fs, Target(d, j))
                        /\ IsFileRecord(j) =>
                              /\ IsFile(fs, Target(d, j))
                              /\ fs[Target(d, j)].content =
                                    LastContent(d, Target(d, j), n - 1)

\* The second record failed after the first one wrote a new file, which is there.
C9_Witness ==
    \E d \in buildPaths :
        /\ Rejected(d) /\ task[d].i = 2
        /\ IsFileRecord(1)
        /\ ~Exists(fs1, Target(d, 1))
        /\ IsFile(fs, Target(d, 1))

-----------------------------------------------------------------------------
HasFileRecord == \E i \in Indices : IsFileRecord(i)
FirstFileRecord == CHOOSE i \in Indices : IsFileRecord(i) /\ \A j \in 1..(i - 1) : IsDirRecord(j)

\* C10: a second non-strict call after a successful one succeeds and leaves the
\* file system as it was; a second strict call after a successful one, on a list
\* with a 'file' record, fails at the first 'file' record and changes no file.
C10_NonStrictIdempotentStrictNotRepeatable ==
    \A d \in buildPaths :
        run = 2 =>
            /\ ~strict => /\ ~Rejected(d)
                          /\ Fulfilled(d) => fs = fs1
            /\ (strict /\ HasFileRecord) =>
                  /\ ~Fulfilled(d)
                  /\ Rejected(d) => task[d].i = FirstFileRecord /\ task[d].err = "EEXIST"
                  /\ \A p \in DOMAIN fs1 : IsFile(fs1, p) => fs[p] = fs1[p]
                  /\ Settled(d) => fs = fs1

\* A second non-strict call that fulfilled after rewriting a path named twice.
C10_Witness ==
    \E d \in buildPaths :
        /\ run = 2 /\ ~strict /\ Fulfilled(d)
        /\ Len(fileSystem) = 2
        /\ IsFileRecord(1) /\ IsFileRecord(2)
        /\ Target(d, 1) = Target(d, 2)
        /\ fileSystem[1].content # fileSystem[2].content

====
